---- MODULE Spec2Model ----
(***************************************************************************)
(* The request pipeline of the chat-completions relay.                     *)
(*                                                                         *)
(* The repository holds two copies of the handler of                       *)
(* POST /api/chat/completions: the gated one (src/Dockerfile, with the     *)
(* Auth Gate) and the ungated one (src/index.js).  One request is followed *)
(* from its arrival to the end of its response.  Every action is one       *)
(* synchronous segment of the async handler (from a resumption point to    *)
(* the next await or return) or one event of a collaborator: the auth      *)
(* service, the LLM API, the upstream body stream, the client connection.  *)
(***************************************************************************)
EXTENDS Integers, Sequences, FiniteSets, TLC

\* ---------------------------------------------------------------- bounds
MaxChunks == 2
NumChunkValues == 2

Chunks == 1..NumChunkValues

\* ------------------------------------------------- collaborators' answers
Variants == {"gated", "ungated"}

\* HTTP statuses the LLM API answers with; ok is 200..299 (response.ok)
UpstreamStatuses == {200, 201, 429}

IsOk(st) == st >= 200 /\ st <= 299

\* texts of an upstream body: two spellings of one JSON value, another
\* JSON value, and a text that is not JSON
UpstreamBodies == {"[1]", "[ 1 ]", "{}", "<html>"}

\* response.json(): JSON.parse of the body text
JsonParse(t) ==
  CASE t = "[1]" -> [ok |-> TRUE, val |-> "array-of-1"]
    [] t = "[ 1 ]" -> [ok |-> TRUE, val |-> "array-of-1"]
    [] t = "{}" -> [ok |-> TRUE, val |-> "empty-object"]
    [] OTHER -> [ok |-> FALSE, val |-> "SyntaxError"]

\* res.json(v): JSON.stringify of the value
JsonStringify(v) ==
  CASE v = "array-of-1" -> "[1]"
    [] v = "empty-object" -> "{}"
    [] OTHER -> "null"

\* the auth service's parsed answers; "null" is a body that parses to null
AuthAnswers ==
  {a \in [isValid : BOOLEAN, isFreeTrial : BOOLEAN, isNull : BOOLEAN] :
     a.isNull => (~a.isValid /\ ~a.isFreeTrial)}

NoAnswer == [isValid |-> FALSE, isFreeTrial |-> FALSE, isNull |-> TRUE]

\* --------------------------------------------------------- JS values
\* a JavaScript value: its kind and, but for undefined and null, its
\* payload (a string, a number, a boolean, the sequence of an array's
\* elements, the key-to-value function of an object)
JUndef == [t |-> "undefined"]
JNull == [t |-> "null"]
JStr(s) == [t |-> "string", v |-> s]
JNum(n) == [t |-> "number", v |-> n]
JBool(b) == [t |-> "boolean", v |-> b]
JArr(s) == [t |-> "array", v |-> s]
JObj(f) == [t |-> "object", v |-> f]

\* {}
EmptyMap == [k \in {} |-> JUndef]

\* typeof x === "object": objects, arrays and null
TypeofObject(x) == x.t \in {"object", "array", "null"}

\* !x : undefined, null, false, 0 and "" are falsy
Falsy(x) ==
  \/ x.t \in {"undefined", "null"}
  \/ (x.t = "boolean" /\ x.v = FALSE)
  \/ (x.t = "number" /\ x.v = 0)
  \/ (x.t = "string" /\ x.v = "")

\* ------------------------------------------------------------------ state
VARIABLES
  variant,      \* which copy of the handler serves the request
  apiKeySet,    \* process.env.OPENAI_API_KEY is set
  pc,           \* position of the handler
  hasAuth,      \* the request carries an Authorization header
  stream,       \* req.body.stream
  authCalls,    \* fetches sent to the auth service
  llmCalls,     \* fetches sent to the LLM API
  authState,    \* "none", "passed", "rejected", "errored", "badStatus"
  authAnswer,   \* the parsed validationData, when one was read
  gotAnswer,    \* validationData was read
  upStatus,     \* response.status of the LLM API, 0 before it answers
  upBody,       \* text of the upstream body (non-stream paths)
  upstream,     \* response.body: "none", "open", "ended", "destroyed", "errored"
  piped,        \* response.body.pipe(res) is set up
  closeListener,\* req.on('close', ...) is registered
  stalled,      \* the pipe paused the source for good (write to a gone client)
  emitted,      \* chunks the upstream body emitted
  delivered,    \* chunks written to the caller
  clientGone,   \* the client closed the connection
  status,       \* status of the response, 0 when none was written
  resBody,      \* body of the response
  responses,    \* number of status/body writes
  failure,      \* the failure the request met, "none" when none
  crashed,      \* an error escaped every handler: the process is down
  fnPc,         \* position of the helper function under study, "off" when none
  fnIn,         \* the argument the helper function is applied to
  fnOut,        \* the value the helper function returned
  reqs          \* the requests in flight together, <<>> when not followed

vars == <<variant, apiKeySet, pc, hasAuth, stream, authCalls, llmCalls,
          authState, authAnswer, gotAnswer, upStatus, upBody, upstream,
          piped, closeListener, stalled, emitted, delivered, clientGone,
          status, resBody, responses, failure, crashed,
          fnPc, fnIn, fnOut, reqs>>

pipeVars == <<variant, apiKeySet, pc, hasAuth, stream, authCalls, llmCalls,
              authState, authAnswer, gotAnswer, upStatus, upBody, upstream,
              piped, closeListener, stalled, emitted, delivered, clientGone,
              status, resBody, responses, failure, crashed>>
fnVars == <<fnPc, fnIn, fnOut>>
otherVars == <<fnPc, fnIn, fnOut, reqs>>

reqVars == <<hasAuth, stream>>
authVars == <<authCalls, authState, authAnswer, gotAnswer>>
llmVars == <<llmCalls, upStatus, upBody>>
streamVars == <<upstream, piped, closeListener, stalled, emitted, delivered>>
resVars == <<status, resBody, responses>>
envVars == <<variant, apiKeySet>>

NoBody == [kind |-> "none", val |-> ""]
ErrorBody(msg) == [kind |-> "error", val |-> msg]
RelayBody(text) == [kind |-> "relay", val |-> text]
StreamBody == [kind |-> "stream", val |-> ""]

\* the handler before a request arrives
PipeStart ==
  /\ pc = "idle"
  /\ hasAuth = FALSE
  /\ stream = FALSE
  /\ authCalls = 0
  /\ llmCalls = 0
  /\ authState = "none"
  /\ authAnswer = NoAnswer
  /\ gotAnswer = FALSE
  /\ upStatus = 0
  /\ upBody = ""
  /\ upstream = "none"
  /\ piped = FALSE
  /\ closeListener = FALSE
  /\ stalled = FALSE
  /\ emitted = <<>>
  /\ delivered = <<>>
  /\ clientGone = FALSE
  /\ status = 0
  /\ resBody = NoBody
  /\ responses = 0
  /\ failure = "none"
  /\ crashed = FALSE

\* no helper function is under study
FnOff ==
  /\ fnPc = "off"
  /\ fnIn = JUndef
  /\ fnOut = JUndef

Init ==
  /\ variant \in Variants
  /\ apiKeySet \in BOOLEAN
  /\ PipeStart
  /\ FnOff
  /\ reqs = <<>>

\* ------------------------------------------------------ handler's pieces

Respond_NoReturn(st, body, why) ==
  /\ status' = st
  /\ resBody' = body
  /\ responses' = responses + 1
  /\ failure' = why
  /\ pc' = pc

\* res.status(st).json(body), then the handler returns
Respond(st, body, why) ==
  /\ status' = st
  /\ resBody' = body
  /\ responses' = responses + 1
  /\ failure' = why
  /\ pc' = "done"

\* return res.status(st).json({ error: msg }) before any LLM call
Fail(st, msg, why) ==
  /\ Respond(st, ErrorBody(msg), why)
  /\ UNCHANGED <<llmVars, authCalls>>

\* await fetch(`${authServiceUrl}/api/auth/validate`, ...)
CallAuth ==
  /\ authCalls' = authCalls + 1
  /\ pc' = "authWait"
  /\ UNCHANGED <<llmVars, resVars, failure>>

\* const response = await fetch('https://api.openai.com/v1/chat/completions')
CallLLM ==
  /\ llmCalls' = llmCalls + 1
  /\ pc' = "llmWait"
  /\ UNCHANGED <<upStatus, upBody, resVars, failure, authCalls>>

ApiKeyCheck_Skipped == CallLLM

\* if (!apiKey) return res.status(500)...; else compose the body and call
ApiKeyCheck ==
  IF ~apiKeySet
    THEN Fail(500, "OpenAI API key not configured", "noApiKey")
    ELSE CallLLM

NoTokenCheck_Gated(h) ==
  IF ~h
    THEN Fail(401, "No authorization token provided", "noToken")
    ELSE CallAuth

\* gated: if (!authHeader) return 401, else the auth call;
\* ungated: the handler starts at the API-key check
Entry(h) ==
  IF variant = "gated" THEN NoTokenCheck_Gated(h) ELSE ApiKeyCheck

AuthCatch_FailOpen == ApiKeyCheck

AuthCatch_Retry ==
  IF authCalls < 3
    THEN CallAuth
    ELSE Fail(500, "Authentication check failed", "authTransport")

\* catch (error) { return res.status(500).json({ error: 'Authentication check failed' }) }
AuthCatch == Fail(500, "Authentication check failed", "authTransport")

\* if (!validationResponse.ok) return res.status(401)...
AuthStatusFail == Fail(401, "Token validation request failed", "authStatus")

AuthDecision_NoTrialCheck(data) ==
  CASE data.isNull -> 500
    [] ~data.isValid -> 401
    [] OTHER -> 0

\* the checks on validationData: the status to answer with, 0 to proceed;
\* reading a field of null throws inside the try, so the catch answers 500
AuthDecision(data) ==
  CASE data.isNull -> 500
    [] ~data.isValid -> 401
    [] ~data.isFreeTrial -> 403
    [] OTHER -> 0

\* the outer catch: res.status(500).json({ error: error.message })
Catch(msg, why) ==
  /\ Respond(500, ErrorBody(msg), why)
  /\ UNCHANGED authCalls

RelayStatus_Always500(st) == 500

\* res.status(response.status)
RelayStatus(st) == st

\* res.json(data) leaves the default status
SuccessStatus(st) == 200

\* response.json() followed by res.json(): parse, then serialise again
RelayText(t) == JsonStringify(JsonParse(t).val)

PipeWrite_Reordered(out, c) == <<c>> \o out

\* response.body.pipe(res): each 'data' chunk is written to res as it comes
PipeWrite(out, c) == Append(out, c)

\* -------------------------------------------------------------- actions

\* the request arrives and the handler runs to its first await or return
HandleRequest ==
  /\ pc = "idle" /\ ~crashed
  /\ \E h \in BOOLEAN, s \in BOOLEAN :
       /\ hasAuth' = h
       /\ stream' = s
       /\ Entry(h)
  /\ UNCHANGED <<envVars, authState, authAnswer, gotAnswer, streamVars,
                 clientGone, crashed>>
  /\ UNCHANGED otherVars

\* the fetch of the auth service rejects (network or transport failure)
AuthFetchRejects ==
  /\ pc = "authWait" /\ ~crashed
  /\ authState' = "errored"
  /\ AuthCatch
  /\ UNCHANGED <<envVars, reqVars, authAnswer, gotAnswer, streamVars,
                 clientGone, crashed>>
  /\ UNCHANGED otherVars

\* the auth service answers with an HTTP status
AuthFetchResolves ==
  /\ pc = "authWait" /\ ~crashed
  /\ \E ok \in BOOLEAN :
       IF ~ok
         THEN /\ authState' = "badStatus"
              /\ AuthStatusFail
         ELSE /\ pc' = "authBody"
              /\ UNCHANGED <<authState, authCalls, llmVars, resVars, failure>>
  /\ UNCHANGED <<envVars, reqVars, authAnswer, gotAnswer, streamVars,
                 clientGone, crashed>>
  /\ UNCHANGED otherVars

\* validationResponse.json() rejects: the body cannot be read or parsed
AuthBodyRejects ==
  /\ pc = "authBody" /\ ~crashed
  /\ authState' = "errored"
  /\ AuthCatch
  /\ UNCHANGED <<envVars, reqVars, authAnswer, gotAnswer, streamVars,
                 clientGone, crashed>>
  /\ UNCHANGED otherVars

\* validationResponse.json() resolves with validationData
AuthBodyResolves ==
  /\ pc = "authBody" /\ ~crashed
  /\ \E data \in AuthAnswers :
       /\ authAnswer' = data
       /\ gotAnswer' = TRUE
       /\ LET d == AuthDecision(data) IN
            CASE d = 0 -> /\ authState' = "passed"
                          /\ ApiKeyCheck
              [] d = 500 -> /\ authState' = "errored"
                            /\ AuthCatch
              [] d = 401 -> /\ authState' = "rejected"
                            /\ Fail(401, "Invalid token", "invalidToken")
              [] OTHER -> /\ authState' = "rejected"
                          /\ Fail(403, "Subscription required", "noSubscription")
  /\ UNCHANGED <<envVars, reqVars, streamVars, clientGone, crashed>>
  /\ UNCHANGED otherVars

\* the fetch of the LLM API rejects: the outer catch answers
LLMFetchRejects ==
  /\ pc = "llmWait" /\ ~crashed
  /\ Catch("fetch failed", "llmTransport")
  /\ UNCHANGED <<envVars, reqVars, authState, authAnswer, gotAnswer, llmVars,
                 streamVars, clientGone, crashed>>
  /\ UNCHANGED otherVars

\* setHeader x3; response.body.pipe(res); req.on('close', ...)
StartStream ==
  /\ status' = 200
  /\ resBody' = StreamBody
  /\ responses' = responses + 1
  /\ piped' = TRUE
  /\ closeListener' = TRUE
  /\ pc' = "done"

\* the LLM API answers with a status: the handler goes on to read the
\* error body, to read the data, or to set up the stream
LLMFetchResolves ==
  /\ pc = "llmWait" /\ ~crashed
  /\ \E st \in UpstreamStatuses :
       /\ upStatus' = st
       /\ upstream' = "open"
       /\ IF ~IsOk(st)
            THEN /\ pc' = "errBody"
                 /\ UNCHANGED <<resVars, piped, closeListener>>
            ELSE IF ~stream
              THEN /\ pc' = "okBody"
                   /\ UNCHANGED <<resVars, piped, closeListener>>
              ELSE StartStream
  /\ UNCHANGED <<envVars, reqVars, authVars, llmCalls, upBody, stalled,
                 emitted, delivered, clientGone, failure, crashed>>
  /\ UNCHANGED otherVars

\* const error = await response.json(); return res.status(response.status).json(error)
LLMErrorBody ==
  /\ pc = "errBody" /\ ~crashed
  /\ \E t \in UpstreamBodies :
       /\ upBody' = t
       /\ IF JsonParse(t).ok
            THEN Respond(RelayStatus(upStatus), RelayBody(RelayText(t)), "llmStatus")
            ELSE Catch(JsonParse(t).val, "bodyParse")
  /\ upstream' = "ended"
  /\ UNCHANGED <<envVars, reqVars, authVars, llmCalls, upStatus, piped,
                 closeListener, stalled, emitted, delivered, clientGone,
                 crashed>>
  /\ UNCHANGED otherVars

\* const data = await response.json(); return res.json(data)
LLMOkBody ==
  /\ pc = "okBody" /\ ~crashed
  /\ \E t \in UpstreamBodies :
       /\ upBody' = t
       /\ IF JsonParse(t).ok
            THEN Respond(SuccessStatus(upStatus), RelayBody(RelayText(t)), "none")
            ELSE Catch(JsonParse(t).val, "bodyParse")
  /\ upstream' = "ended"
  /\ UNCHANGED <<envVars, reqVars, authVars, llmCalls, upStatus, piped,
                 closeListener, stalled, emitted, delivered, clientGone,
                 crashed>>
  /\ UNCHANGED otherVars

\* response.json() rejects because the body stream fails while it is read
LLMBodyRejects ==
  /\ pc \in {"errBody", "okBody"} /\ ~crashed
  /\ Catch("body stream failed", "bodyRead")
  /\ upstream' = "errored"
  /\ UNCHANGED <<envVars, reqVars, authState, authAnswer, gotAnswer, llmVars,
                 piped, closeListener, stalled, emitted, delivered,
                 clientGone, crashed>>
  /\ UNCHANGED otherVars

\* req emits 'close': the listeners registered at that moment run;
\* the listener of the handler calls response.body.destroy()
CloseEvent(up) ==
  IF closeListener /\ up = "open" THEN "destroyed" ELSE up

\* the client closes the connection
ClientClose ==
  /\ pc # "idle" /\ ~clientGone /\ ~crashed
  /\ clientGone' = TRUE
  /\ upstream' = CloseEvent(upstream)
  /\ UNCHANGED <<envVars, pc, reqVars, authVars, llmVars, piped,
                 closeListener, stalled, emitted, delivered, resVars,
                 failure, crashed>>
  /\ UNCHANGED otherVars

\* the upstream body emits a chunk and the pipe writes it to res; a write
\* to a response whose connection is gone is dropped and returns false, so
\* the pipe pauses the source and waits for a 'drain' that never comes
UpstreamChunk ==
  /\ piped /\ upstream = "open" /\ ~stalled /\ ~crashed
  /\ Len(emitted) < MaxChunks
  /\ \E c \in Chunks :
       /\ emitted' = Append(emitted, c)
       /\ IF clientGone
            THEN /\ stalled' = TRUE
                 /\ UNCHANGED delivered
            ELSE /\ delivered' = PipeWrite(delivered, c)
                 /\ UNCHANGED stalled
  /\ UNCHANGED <<envVars, pc, reqVars, authVars, llmVars, upstream, piped,
                 closeListener, clientGone, resVars, failure, crashed>>
  /\ UNCHANGED otherVars

\* the upstream body ends and the pipe ends the response
UpstreamEnd ==
  /\ piped /\ upstream = "open" /\ ~stalled /\ ~crashed
  /\ upstream' = "ended"
  /\ UNCHANGED <<envVars, pc, reqVars, authVars, llmVars, piped,
                 closeListener, stalled, emitted, delivered, clientGone,
                 resVars, failure, crashed>>
  /\ UNCHANGED otherVars

\* the upstream body emits 'error' after the pipe is set up: no listener
\* is registered on response.body and the handler's try block has been
\* left, so the error is an uncaught exception
UpstreamError ==
  /\ piped /\ upstream = "open" /\ ~crashed
  /\ upstream' = "errored"
  /\ failure' = "streamError"
  /\ crashed' = TRUE
  /\ UNCHANGED <<envVars, pc, reqVars, authVars, llmVars, piped,
                 closeListener, stalled, emitted, delivered, clientGone,
                 resVars>>
  /\ UNCHANGED otherVars

Next ==
  \/ HandleRequest
  \/ AuthFetchRejects
  \/ AuthFetchResolves
  \/ AuthBodyRejects
  \/ AuthBodyResolves
  \/ LLMFetchRejects
  \/ LLMFetchResolves
  \/ LLMErrorBody
  \/ LLMOkBody
  \/ LLMBodyRejects
  \/ ClientClose
  \/ UpstreamChunk
  \/ UpstreamEnd
  \/ UpstreamError

Spec == Init /\ [][Next]_vars

IsPrefix(a, b) ==
  /\ Len(a) <= Len(b)
  /\ \A i \in 1..Len(a) : a[i] = b[i]

\* the auth service answered with isValid and isFreeTrial both true
AuthSucceeded ==
  /\ authState = "passed"
  /\ gotAnswer
  /\ authAnswer.isValid
  /\ authAnswer.isFreeTrial

\* an error response was written for the request
ErrorResponded == status >= 400

\* ------------------------------------------------------------- claims

\* C1: in every execution the LLM call is preceded by a successful auth
\* validation (isValid and isFreeTrial both true), and the relay of an
\* upstream response is preceded by the LLM call and its answer.
C1_AuthBeforeLLM ==
  /\ (llmCalls > 0 => AuthSucceeded)
  /\ (resBody.kind \in {"relay", "stream"} => (llmCalls > 0 /\ upStatus # 0))

\* C2: a request without an Authorization header is answered 401 at once;
\* the auth service and the LLM API are never called for it.
C2_NoHeader401 ==
  (pc # "idle" /\ ~hasAuth) =>
     (pc = "done" /\ status = 401 /\ authCalls = 0 /\ llmCalls = 0)

\* C3: for an answer {isValid, isFreeTrial} of the auth service: isValid
\* false gives 401, isValid true with isFreeTrial false gives 403, both
\* without an LLM call; the LLM is called only when both are true, and
\* then the handler goes on to the API-key check and the call.
C3_AuthDecisions ==
  (gotAnswer /\ ~authAnswer.isNull) =>
     /\ (~authAnswer.isValid =>
           (pc = "done" /\ status = 401 /\ llmCalls = 0))
     /\ ((authAnswer.isValid /\ ~authAnswer.isFreeTrial) =>
           (pc = "done" /\ status = 403 /\ llmCalls = 0))
     /\ (llmCalls > 0 => (authAnswer.isValid /\ authAnswer.isFreeTrial))
     /\ ((authAnswer.isValid /\ authAnswer.isFreeTrial) =>
           (authState = "passed" /\ (apiKeySet => llmCalls = 1)))

C3_Witness ==
  /\ gotAnswer /\ ~authAnswer.isNull
  /\ authAnswer.isValid /\ ~authAnswer.isFreeTrial
  /\ status = 403

\* C4: the Auth Gate fails closed: a transport failure of the auth call
\* (or an unreadable body) ends the request with 500, a non-success status
\* of the auth service ends it with 401; the LLM API is not called and the
\* auth call is not repeated.
C4_FailClosed ==
  /\ (authState = "errored" =>
        (pc = "done" /\ status = 500 /\ resBody.kind = "error"
           /\ llmCalls = 0 /\ authCalls = 1))
  /\ (authState = "badStatus" =>
        (pc = "done" /\ status = 401 /\ resBody.kind = "error"
           /\ llmCalls = 0 /\ authCalls = 1))

C4_Witness ==
  /\ authState = "errored"
  /\ ~gotAnswer
  /\ apiKeySet
  /\ status = 500

\* C5: in stream mode no execution ends with the client gone and the
\* upstream stream still open: once the client has disconnected the
\* upstream body is destroyed, whatever the moment of the disconnect.
C5_NoLeak ==
  ~(stream /\ clientGone /\ pc = "done" /\ piped /\ stalled
      /\ upstream = "open")

\* C6 (as claimed): for every upstream status and body, a non-success
\* status is relayed with the same status and the upstream error body, and
\* a success without streaming is answered 200 with the upstream JSON body.
C6_RelayOriginal ==
  (upBody # "") =>
     /\ status = (IF IsOk(upStatus) THEN 200 ELSE upStatus)
     /\ resBody.kind = "relay"
     /\ JsonParse(resBody.val) = JsonParse(upBody)

\* C6 (amended): when the upstream body parses as JSON, a non-success
\* status is relayed with the same status and a success without streaming
\* is answered 200, the body being the upstream JSON value serialised
\* again; when the body does not parse, the caller is answered 500 with a
\* JSON error body.
C6_Relay ==
  (upBody # "") =>
     IF JsonParse(upBody).ok
       THEN /\ status = (IF IsOk(upStatus) THEN 200 ELSE upStatus)
            /\ resBody.kind = "relay"
            /\ JsonParse(resBody.val) = JsonParse(upBody)
       ELSE /\ status = 500
            /\ resBody.kind = "error"

C6_Witness ==
  /\ upStatus = 429
  /\ upBody = "[ 1 ]"
  /\ status = 429
  /\ resBody = RelayBody("[1]")

\* C7: every failure ends with a JSON error body sent to the caller and
\* none takes the process down.
C7_AllFailuresAnswered ==
  /\ ~crashed
  /\ (failure # "none" =>
        (pc = "done" /\ status >= 400 /\ resBody.kind \in {"error", "relay"}))

\* C8: the auth service and the LLM API are each called at most once for
\* a request, and no outbound call is made once an error response exists.
C8_NoRetry ==
  /\ [](authCalls <= 1 /\ llmCalls <= 1)
  /\ [][ErrorResponded => (authCalls' = authCalls /\ llmCalls' = llmCalls)]_vars

C8_Witness ==
  /\ authCalls = 1
  /\ llmCalls = 1
  /\ pc = "done"
  /\ ErrorResponded
  /\ failure = "llmTransport"

\* C9 (as claimed): without an API key the request ends with 500 and no
\* outbound call at all is made for it.
C9_NoKeyOriginal ==
  ~apiKeySet =>
     /\ authCalls = 0
     /\ llmCalls = 0
     /\ (pc = "done" => status = 500)

\* C9 (amended): without an API key the LLM API is never called, and a
\* request that reaches the key check (every request of the ungated
\* handler, the requests the Auth Gate lets through in the gated one) ends
\* with 500 "not configured"; the gated handler calls the auth service
\* before the key check, and a request the gate stops ends with the gate's
\* own 401, 403 or 500.
C9_NoKey ==
  ~apiKeySet =>
     /\ llmCalls = 0
     /\ ((pc = "done" /\ (variant = "ungated" \/ authState = "passed")) =>
           (status = 500
              /\ resBody = ErrorBody("OpenAI API key not configured")))
     /\ ((pc = "done" /\ variant = "gated" /\ authState # "passed") =>
           (status \in {401, 403, 500} /\ resBody.kind = "error"))

C9_Witness ==
  /\ ~apiKeySet
  /\ variant = "gated"
  /\ authState = "passed"
  /\ authCalls = 1
  /\ status = 500

\* C10: in stream mode the chunks delivered to the caller are at every
\* moment a prefix of the chunks the upstream body emitted, and when the
\* upstream stream has ended normally the caller has received them all.
C10_Prefix ==
  /\ IsPrefix(delivered, emitted)
  /\ ((piped /\ upstream = "ended") => delivered = emitted)

C10_Witness ==
  /\ piped
  /\ upstream = "ended"
  /\ Len(delivered) >= 2
  /\ delivered[1] # delivered[2]

\* ================================================== Schema Normalizer
\* validateAndCleanSchema and cleanSchemaProperties.  A call returns the
\* value handed back (out), the caller's argument as it is after the call
\* (in: it differs from the argument only if the call wrote into it) and
\* the number of calls of validateAndCleanSchema it took (calls).

MaxSchemaDepth == 1

\* keys of the object { ...[x0, x1, ...] } made from an array
IndexKeys == <<"0", "1", "2", "3">>

IndexOf(k) == CHOOSE i \in 1..Len(IndexKeys) : IndexKeys[i] = k

Put(m, k, x) == [y \in (DOMAIN m) \cup {k} |-> IF y = k THEN x ELSE m[y]]

\* the own enumerable properties of an object or an array:
\* what { ...x } copies and what Object.entries(x) lists
OwnProps(x) ==
  IF x.t = "object" THEN x.v
  ELSE IF x.t = "array"
    THEN [k \in {IndexKeys[i] : i \in 1..Len(x.v)} |-> x.v[IndexOf(k)]]
    ELSE EmptyMap

\* x[k], undefined when x has no such property
Get(x, k) == IF k \in DOMAIN OwnProps(x) THEN OwnProps(x)[k] ELSE JUndef

\* the object or array x with its properties replaced by those of m
WithProps(x, m) ==
  IF x.t = "array"
    THEN JArr([i \in 1..Len(x.v) |-> m[IndexKeys[i]]])
    ELSE JObj(m)

DefaultSchema_NoProperties == JObj([type |-> JStr("object")])

DefaultSchema_Empty == JObj(EmptyMap)

\* { type: "object", properties: {} }
DefaultSchema ==
  JObj([type |-> JStr("object"), properties |-> JObj(EmptyMap)])

\* { type: "string" }
DefaultItems == JObj([type |-> JStr("string")])

\* !schema || typeof schema !== "object"
IsNonObject(schema) == Falsy(schema) \/ ~TypeofObject(schema)

Spread_Alias(schema) ==
  [orig |-> schema, work |-> JObj(OwnProps(schema)), alias |-> TRUE]

\* const cleanSchema = { ...schema }: a new object with the same
\* properties; orig is the caller's object, work the copy
Spread(schema) ==
  [orig |-> schema, work |-> JObj(OwnProps(schema)), alias |-> FALSE]

\* cleanSchema[k] = x: written to the copy, and to the caller's object
\* only if the copy is that same object
Assign(c, k, x) ==
  LET w == JObj(Put(c.work.v, k, x)) IN
    [orig |-> IF c.alias THEN w ELSE c.orig, work |-> w, alias |-> c.alias]

SetDefaultType_Never(c) == c

\* if (!cleanSchema.type) cleanSchema.type = "object"
SetDefaultType(c) ==
  IF Falsy(Get(c.work, "type")) THEN Assign(c, "type", JStr("object")) ELSE c

\* if (!cleanSchema.properties) cleanSchema.properties = {}
SetDefaultProperties(c) ==
  IF Falsy(Get(c.work, "properties"))
    THEN Assign(c, "properties", JObj(EmptyMap))
    ELSE c

\* if (cleanSchema.type === "array" && !cleanSchema.items) cleanSchema.items = {...}
SetDefaultItems(c) ==
  IF Get(c.work, "type") = JStr("array") /\ Falsy(Get(c.work, "items"))
    THEN Assign(c, "items", DefaultItems)
    ELSE c

\* cleanSchema.properties && typeof cleanSchema.properties === "object"
NeedsClean(c) ==
  /\ ~Falsy(Get(c.work, "properties"))
  /\ TypeofObject(Get(c.work, "properties"))

RECURSIVE SumCalls(_, _)
SumCalls(r, keys) ==
  IF keys = {} THEN 0
  ELSE LET k == CHOOSE x \in keys : TRUE IN
         r[k].calls + SumCalls(r, keys \ {k})

RECURSIVE validateAndCleanSchema(_)
RECURSIVE cleanSchemaProperties(_)

CleanEntry_Truthy(value) ==
  IF ~Falsy(value) /\ TypeofObject(value)
    THEN validateAndCleanSchema(value)
    ELSE [in |-> value, out |-> value, calls |-> 0]

CleanEntry_Twice(value) ==
  IF TypeofObject(value)
    THEN LET a == validateAndCleanSchema(value)
             b == validateAndCleanSchema(a.out)
         IN [in |-> a.in, out |-> b.out, calls |-> a.calls + b.calls]
    ELSE [in |-> value, out |-> value, calls |-> 0]

\* the body of the loop of cleanSchemaProperties:
\* typeof value === "object" ? validateAndCleanSchema(value) : value
CleanEntry(value) ==
  IF TypeofObject(value)
    THEN validateAndCleanSchema(value)
    ELSE [in |-> value, out |-> value, calls |-> 0]

\* for (const [key, value] of Object.entries(properties)) ...: a new
\* object holding the cleaned value of every entry
cleanSchemaProperties(properties) ==
  LET m == OwnProps(properties)
      r == [k \in DOMAIN m |-> CleanEntry(m[k])]
  IN [in |-> WithProps(properties, [k \in DOMAIN m |-> r[k].in]),
      out |-> JObj([k \in DOMAIN m |-> r[k].out]),
      calls |-> SumCalls(r, DOMAIN m)]

\* cleanSchema.properties = cleanSchemaProperties(cleanSchema.properties);
\* the properties object of the copy is the one of the caller's object
\* unless the default {} has just replaced a missing one
CleanStep(c) ==
  IF ~NeedsClean(c) THEN [c |-> c, calls |-> 0]
  ELSE LET p == Get(c.work, "properties")
           r == cleanSchemaProperties(p)
           shared == Get(c.orig, "properties") = p
           o == IF shared /\ ~c.alias
                  THEN WithProps(c.orig, Put(OwnProps(c.orig), "properties", r.in))
                  ELSE c.orig
       IN [c |-> Assign([c EXCEPT !.orig = o], "properties", r.out),
           calls |-> r.calls]

validateAndCleanSchema(schema) ==
  IF IsNonObject(schema)
    THEN [in |-> schema, out |-> DefaultSchema, calls |-> 1]
    ELSE LET c1 == SetDefaultProperties(SetDefaultType(Spread(schema)))
             s2 == CleanStep(c1)
             c3 == SetDefaultItems(s2.c)
         IN [in |-> c3.orig, out |-> c3.work, calls |-> 1 + s2.calls]

\* the value validateAndCleanSchema returns
Normalized(schema) == validateAndCleanSchema(schema).out

\* ---------------------------------------------- the schemas it is given
AbsentOr(S) == {JUndef} \cup S

\* the object with the given type, properties and items; a field whose
\* value is undefined is left out
MakeSchema(ty, pr, it) ==
  LET m == [k \in {"type", "properties", "items"} |->
              CASE k = "type" -> ty [] k = "properties" -> pr [] OTHER -> it]
  IN JObj([k \in {x \in DOMAIN m : m[x] # JUndef} |-> m[k]])

\* values that are not schema objects
SchemaLeaves ==
  {JNull, JBool(TRUE), JNum(5), JStr("x"), JArr(<<>>), JArr(<<JStr("x")>>)}

TypeOptions == AbsentOr({JStr("object"), JStr("array")})

ItemOptions == AbsentOr({JObj([type |-> JStr("array")]), JStr("x")})

\* the property mappings over the keys "a" and "b": "a" holds any of the
\* given values, "b" a string or null
PropertyMaps(vals) ==
  {[k \in {x \in {"a", "b"} : (IF x = "a" THEN a ELSE b) # JUndef} |->
      IF k = "a" THEN a ELSE b] :
     a \in AbsentOr(vals), b \in AbsentOr({JStr("x"), JNull})}

RECURSIVE SchemaValues(_)
\* the values nested at most d levels of properties deep
SchemaValues(d) ==
  LET maps == IF d = 0 THEN {EmptyMap} ELSE PropertyMaps(SchemaValues(d - 1))
      props == AbsentOr({JNull, JStr("x")} \cup {JObj(m) : m \in maps})
  IN SchemaLeaves \cup
       {MakeSchema(ty, pr, it) :
          ty \in TypeOptions, pr \in props, it \in ItemOptions}

SchemaInputs == {JUndef} \cup SchemaValues(MaxSchemaDepth)

\* -------------------------------------------- applying the Normalizer
\* the pipeline is at rest while a helper function is studied
PipeOff ==
  /\ variant = "gated"
  /\ apiKeySet = FALSE
  /\ PipeStart
  /\ reqs = <<>>

NormInit ==
  /\ PipeOff
  /\ fnPc = "schema"
  /\ fnIn \in SchemaInputs
  /\ fnOut = JUndef

\* validateAndCleanSchema(schema) is called
NormalizeSchema ==
  /\ fnPc = "schema"
  /\ fnOut' = [first |-> validateAndCleanSchema(fnIn), second |-> JUndef]
  /\ fnPc' = "normalized"
  /\ UNCHANGED <<fnIn, pipeVars, reqs>>

\* validateAndCleanSchema is called on the schema it returned
NormalizeAgain ==
  /\ fnPc = "normalized"
  /\ fnOut' = [fnOut EXCEPT !.second = validateAndCleanSchema(fnOut.first.out).out]
  /\ fnPc' = "renormalized"
  /\ UNCHANGED <<fnIn, pipeVars, reqs>>

NormNext ==
  \/ NormalizeSchema
  \/ NormalizeAgain

SpecNorm == NormInit /\ [][NormNext]_vars

\* ------------------------------------------- claims on the Normalizer

\* the schema returned by the first call, once it is made
NormOut == fnOut.first.out

RECURSIVE AllNodesOK(_)
\* a node and every node below it, through properties and through items,
\* has a type, a properties mapping if it is object-typed and an items
\* node if it is array-typed
AllNodesOK(n) ==
  /\ n.t = "object"
  /\ ~Falsy(Get(n, "type"))
  /\ (Get(n, "type") = JStr("object") => Get(n, "properties").t = "object")
  /\ (Get(n, "type") = JStr("array") => "items" \in DOMAIN n.v)
  /\ (Get(n, "properties").t = "object" =>
        \A k \in DOMAIN Get(n, "properties").v :
          Get(n, "properties").v[k].t = "object" =>
            AllNodesOK(Get(n, "properties").v[k]))
  /\ (Get(n, "items").t = "object" => AllNodesOK(Get(n, "items")))

RECURSIVE CleanedOK(_)
\* a node and every node below it through properties mappings has a type
\* and a properties field that is a mapping or a primitive, and an items
\* value if it is array-typed; no array or null is left among the
\* property values
CleanedOK(n) ==
  /\ n.t = "object"
  /\ ~Falsy(Get(n, "type"))
  /\ ~Falsy(Get(n, "properties"))
  /\ Get(n, "properties").t # "array"
  /\ (Get(n, "type") = JStr("array") => ~Falsy(Get(n, "items")))
  /\ (Get(n, "properties").t = "object" =>
        \A k \in DOMAIN Get(n, "properties").v :
          LET x == Get(n, "properties").v[k] IN
            /\ x.t \notin {"null", "array"}
            /\ (x.t = "object" => CleanedOK(x)))

\* C14 (as claimed): in the output every object-typed node at any depth
\* has a properties mapping, every array-typed node at any depth, nodes
\* under items included, has an items node, and type is always present.
C14_AllNodesOriginal ==
  fnPc = "normalized" => AllNodesOK(NormOut)

\* C14 (amended): in the output the root and every node reached through
\* properties mappings has a type and a properties field, which is a
\* mapping unless the input gave a truthy primitive there; each such node
\* of type "array" has an items value; property values that were objects,
\* arrays or null are objects.  Nodes under items are left as given.
C14_CleanedNodes ==
  fnPc = "normalized" => CleanedOK(NormOut)

C14_Witness ==
  /\ fnPc = "normalized"
  /\ fnIn = JObj([properties |-> JObj([a |-> JObj([type |-> JStr("array")])])])
  /\ Get(Get(Get(NormOut, "properties"), "a"), "items") = DefaultItems
  /\ Get(NormOut, "type") = JStr("object")

\* the caller's schema has a properties mapping
HasPropertyMap == fnIn.t = "object" /\ Get(fnIn, "properties").t = "object"

\* C15 (as claimed): every value of the input's properties mapping is
\* normalized: output.properties[k] = validateAndCleanSchema(input.properties[k])
\* whatever the value is.
C15_EveryValueOriginal ==
  (fnPc = "normalized" /\ HasPropertyMap) =>
     \A k \in DOMAIN Get(fnIn, "properties").v :
        Get(NormOut, "properties").v[k]
          = Normalized(Get(fnIn, "properties").v[k])

\* C15 (amended): output.properties[k] is validateAndCleanSchema of the
\* input value when typeof the value is "object" (an object, an array or
\* null); a value of any other type (string, number, boolean) is copied
\* unchanged.
C15_ObjectValues ==
  (fnPc = "normalized" /\ HasPropertyMap) =>
     /\ DOMAIN Get(NormOut, "properties").v = DOMAIN Get(fnIn, "properties").v
     /\ \A k \in DOMAIN Get(fnIn, "properties").v :
          LET x == Get(fnIn, "properties").v[k] IN
            Get(NormOut, "properties").v[k]
              = IF x.t \in {"object", "array", "null"} THEN Normalized(x) ELSE x

C15_Witness ==
  /\ fnPc = "normalized"
  /\ Get(fnIn, "properties") = JObj([a |-> JNull, b |-> JStr("x")])
  /\ Get(NormOut, "properties") = JObj([a |-> DefaultSchema, b |-> JStr("x")])

\* C16: normalizing the schema the Normalizer returned gives that same
\* schema again.
C16_Idempotent ==
  fnPc = "renormalized" => fnOut.second = fnOut.first.out

C16_Witness ==
  /\ fnPc = "renormalized"
  /\ fnIn.t = "object"
  /\ Get(fnIn, "properties").t = "object"
  /\ NormOut # fnIn
  /\ fnOut.second = NormOut

\* C17 (as claimed): every input that is not a schema object (undefined,
\* null, a boolean, a number, a string, an array) gives exactly
\* { type: "object", properties: {} }.
C17_NonObjectOriginal ==
  (fnPc = "normalized" /\ fnIn.t # "object") =>
     NormOut = JObj([type |-> JStr("object"), properties |-> JObj(EmptyMap)])

\* C17 (amended): undefined, null, booleans, numbers and strings give
\* exactly { type: "object", properties: {} }; an array is an object to
\* typeof, so its elements are copied under their indexes next to the
\* two defaults (the empty array gives the same result as undefined).
C17_NonObject ==
  fnPc = "normalized" =>
     /\ (fnIn.t \in {"undefined", "null", "boolean", "number", "string"} =>
           NormOut = JObj([type |-> JStr("object"),
                           properties |-> JObj(EmptyMap)]))
     /\ (fnIn.t = "array" =>
           NormOut = JObj(Put(Put(OwnProps(fnIn), "type", JStr("object")),
                              "properties", JObj(EmptyMap))))

C17_Witness ==
  /\ fnPc = "normalized"
  /\ fnIn = JStr("x")
  /\ NormOut = JObj([type |-> JStr("object"), properties |-> JObj(EmptyMap)])

\* C18: the call leaves the caller's schema, nested mappings and values
\* included, as it was, also when defaults were filled in.
C18_InputUnchanged ==
  fnPc = "normalized" => fnOut.first.in = fnIn

C18_Witness ==
  /\ fnPc = "normalized"
  /\ HasPropertyMap
  /\ "a" \in DOMAIN Get(fnIn, "properties").v
  /\ Get(fnIn, "properties").v["a"].t = "object"
  /\ Get(NormOut, "properties").v["a"] # Get(fnIn, "properties").v["a"]
  /\ Get(NormOut, "type") # Get(fnIn, "type")
  /\ fnOut.first.in = fnIn

RECURSIVE SchemaSize(_)
RECURSIVE SizeSum(_, _)
\* the number of values in the tree of a value
SchemaSize(x) == 1 + SizeSum(OwnProps(x), DOMAIN OwnProps(x))

SizeSum(m, keys) ==
  IF keys = {} THEN 0
  ELSE LET k == CHOOSE y \in keys : TRUE IN
         SchemaSize(m[k]) + SizeSum(m, keys \ {k})

RECURSIVE SchemaNodes(_)
RECURSIVE NodeSum(_, _)
\* the number of schema nodes: the value itself and, when it is an object
\* with a properties mapping, the nodes of the entries typeof calls objects
SchemaNodes(x) ==
  IF x.t \notin {"object", "array"} \/ Get(x, "properties").t \notin {"object", "array"}
    THEN 1
    ELSE 1 + NodeSum(OwnProps(Get(x, "properties")),
                     DOMAIN OwnProps(Get(x, "properties")))

NodeSum(m, keys) ==
  IF keys = {} THEN 0
  ELSE LET k == CHOOSE y \in keys : TRUE IN
         (IF m[k].t \in {"object", "array", "null"} THEN SchemaNodes(m[k]) ELSE 0)
           + NodeSum(m, keys \ {k})

\* C20: on a finite schema the recursion returns, after one call of
\* validateAndCleanSchema for each schema node, so after no more calls
\* than the input has values.
C20_Terminates ==
  fnPc = "normalized" =>
     /\ NormOut.t = "object"
     /\ fnOut.first.calls = SchemaNodes(fnIn)
     /\ fnOut.first.calls <= SchemaSize(fnIn)

C20_Witness ==
  /\ fnPc = "normalized"
  /\ HasPropertyMap
  /\ Get(fnIn, "properties") = JObj([a |-> JObj([properties |-> JObj(EmptyMap)]), b |-> JNull])
  /\ fnOut.first.calls = 3

\* ======================================================= Tool Formatter
MaxTools == 2

\* String(x) inside a template literal
ToText(x) ==
  CASE x.t = "string" -> x.v
    [] x.t = "undefined" -> "undefined"
    [] x.t = "null" -> "null"
    [] OTHER -> "[object Object]"

\* a || b
OrElse(a, b) == IF Falsy(a) THEN b ELSE a

\* the element built for one descriptor:
\* { type: "function", function: { name, description, parameters } }
FormatTool(tool) ==
  JObj([type |-> JStr("function"),
        function |-> JObj(
          [name |-> Get(tool, "name"),
           description |-> OrElse(Get(tool, "description"),
                                  JStr("Execute " \o ToText(Get(tool, "name")))),
           parameters |-> OrElse(Normalized(Get(tool, "inputSchema")),
                                 DefaultSchema)])])

MapTools_Reversed(ts) == [i \in 1..Len(ts) |-> FormatTool(ts[Len(ts) + 1 - i])]

\* tools.map((tool) => ({ ... }))
MapTools(ts) == [i \in 1..Len(ts) |-> FormatTool(ts[i])]

\* if (!tools || !Array.isArray(tools)) return []; return tools.map(...)
formatToolsForLLM(tools) ==
  IF Falsy(tools) \/ tools.t # "array"
    THEN JArr(<<>>)
    ELSE JArr(MapTools(tools.v))

\* ------------------------------------------------- the tools it is given
\* the object with the given name, description and inputSchema; a field
\* whose value is undefined is left out
MakeTool(nm, ds, sc) ==
  LET m == [k \in {"name", "description", "inputSchema"} |->
              CASE k = "name" -> nm [] k = "description" -> ds [] OTHER -> sc]
  IN JObj([k \in {x \in DOMAIN m : m[x] # JUndef} |-> m[k]])

ToolSchemas ==
  AbsentOr({JNull, JStr("x"), JObj([type |-> JStr("array")]),
            JObj([properties |-> JObj([a |-> JNull])])})

\* tool descriptors: objects { name?, description?, inputSchema? }
ToolDescriptors ==
  {MakeTool(nm, ds, sc) :
     nm \in AbsentOr({JStr("t1"), JStr("t2")}),
     ds \in AbsentOr({JStr("d")}),
     sc \in ToolSchemas}

RECURSIVE SeqsUpTo(_, _)
\* the sequences of at most n elements of S
SeqsUpTo(S, n) ==
  IF n = 0 THEN {<<>>}
  ELSE LET shorter == SeqsUpTo(S, n - 1) IN
         shorter \cup {Append(q, x) : q \in shorter, x \in S}

\* the values of req.body.tools: absent, null, not an array, or a list
ToolInputs ==
  {JUndef, JNull, JStr("x"), JObj([name |-> JStr("t1")])}
    \cup {JArr(q) : q \in SeqsUpTo(ToolDescriptors, MaxTools)}

ToolsInit ==
  /\ PipeOff
  /\ fnPc = "tools"
  /\ fnIn \in ToolInputs
  /\ fnOut = JUndef

\* formatToolsForLLM(tools) is called
FormatTools ==
  /\ fnPc = "tools"
  /\ fnOut' = formatToolsForLLM(fnIn)
  /\ fnPc' = "formatted"
  /\ UNCHANGED <<fnIn, pipeVars, reqs>>

SpecTools == ToolsInit /\ [][FormatTools]_vars

\* C19: for a list of tool descriptors the result has the length of the
\* list and its i-th element is built from the i-th descriptor (name
\* passed through, parameters the normalized inputSchema); for an input
\* that is undefined, empty or not an array the result is the empty
\* sequence, never undefined.
C19_ToolsInOrder ==
  fnPc = "formatted" =>
     /\ fnOut.t = "array"
     /\ (fnIn.t # "array" => fnOut.v = <<>>)
     /\ (fnIn.t = "array" =>
           /\ Len(fnOut.v) = Len(fnIn.v)
           /\ \A i \in 1..Len(fnIn.v) :
                /\ Get(fnOut.v[i], "type") = JStr("function")
                /\ Get(Get(fnOut.v[i], "function"), "name")
                     = Get(fnIn.v[i], "name")
                /\ Get(Get(fnOut.v[i], "function"), "parameters")
                     = Normalized(Get(fnIn.v[i], "inputSchema")))

C19_Witness ==
  /\ fnPc = "formatted"
  /\ fnIn.t = "array"
  /\ Len(fnIn.v) = 2
  /\ Get(fnIn.v[1], "name") = JStr("t2")
  /\ Get(fnIn.v[2], "name") = JStr("t1")
  /\ Get(Get(fnOut.v[1], "function"), "name") = JStr("t2")
  /\ Get(Get(fnOut.v[2], "function"), "description") = JStr("Execute t1")

\* ===================================================== Request Composer
MaxMessages == 2

\* max_completion_tokens: 4000
MaxCompletionTokens == 4000

\* const SYSTEM_PROMPT = `...`: each copy of the server has its own text
SystemPromptOf(v) ==
  JStr(IF v = "gated"
         THEN "SYSTEM_PROMPT of src/Dockerfile"
         ELSE "SYSTEM_PROMPT of src/index.js")

\* SYSTEM_PROMPT as the running handler reads it
SYSTEM_PROMPT == SystemPromptOf(variant)

\* const { x = d } = req.body: the default stands in for undefined only
Default(x, d) == IF x = JUndef THEN d ELSE x

\* messages.length, for an array
Length(x) == IF x.t = "array" THEN Len(x.v) ELSE 0

HasSystemPrompt_Any(messages) ==
  \E i \in 1..Length(messages) : Get(messages.v[i], "role") = JStr("system")

\* messages[0]?.role === 'system'
HasSystemPrompt(messages) ==
  /\ Length(messages) > 0
  /\ Get(messages.v[1], "role") = JStr("system")

\* let finalMessages = messages; if (includeSystemPrompt && messages &&
\* messages.length > 0) { if (!hasSystemPrompt) finalMessages = [system, ...messages] }
FinalMessagesOf(prompt, messages, includeSystemPrompt) ==
  IF /\ ~Falsy(includeSystemPrompt)
     /\ ~Falsy(messages)
     /\ Length(messages) > 0
     /\ ~HasSystemPrompt(messages)
    THEN JArr(<<JObj([role |-> JStr("system"), content |-> prompt])>>
                \o messages.v)
    ELSE messages

\* finalMessages of the running handler
FinalMessages(messages, includeSystemPrompt) ==
  FinalMessagesOf(SYSTEM_PROMPT, messages, includeSystemPrompt)

\* const formattedTools = tools ? formatToolsForLLM(tools) : []
FormattedTools(tools) ==
  IF ~Falsy(tools) THEN formatToolsForLLM(tools) ELSE JArr(<<>>)

ToolsField_Always(formattedTools) == formattedTools

\* tools: formattedTools.length > 0 ? formattedTools : undefined
ToolsField(formattedTools) ==
  IF Len(formattedTools.v) > 0 THEN formattedTools ELSE JUndef

\* tool_choice: formattedTools.length > 0 ? 'auto' : undefined
ToolChoiceField(formattedTools) ==
  IF Len(formattedTools.v) > 0 THEN JStr("auto") ELSE JUndef

\* const requestBody = { model, messages, tools, tool_choice, ... }
RequestBodyOf(prompt, body) ==
  LET formattedTools == FormattedTools(Get(body, "tools")) IN
    JObj([model |-> Default(Get(body, "model"), JStr("gpt-5")),
          messages |->
            FinalMessagesOf(prompt, Get(body, "messages"),
                            Default(Get(body, "includeSystemPrompt"), JBool(TRUE))),
          tools |-> ToolsField(formattedTools),
          tool_choice |-> ToolChoiceField(formattedTools),
          max_completion_tokens |-> JNum(MaxCompletionTokens),
          stream |-> Default(Get(body, "stream"), JBool(FALSE))])

\* requestBody of the running handler
RequestBody(body) == RequestBodyOf(SYSTEM_PROMPT, body)

RECURSIVE Wire(_)
\* the JSON value JSON.stringify(x) puts on the wire: a property whose
\* value is undefined is left out, an undefined array element is null
Wire(x) ==
  CASE x.t = "object" ->
         JObj([k \in {y \in DOMAIN x.v : x.v[y] # JUndef} |-> Wire(x.v[k])])
    [] x.t = "array" ->
         JArr([i \in 1..Len(x.v) |->
                 IF x.v[i] = JUndef THEN JNull ELSE Wire(x.v[i])])
    [] OTHER -> x

\* body: JSON.stringify(requestBody)
OutboundBody(body) == Wire(RequestBody(body))

\* ------------------------------------------------ the bodies it is given
\* the object holding the entries of m whose value is not undefined
Compact(m) == JObj([k \in {x \in DOMAIN m : m[x] # JUndef} |-> m[k]])

SystemX == JObj([role |-> JStr("system"), content |-> JStr("X")])
UserHello == JObj([role |-> JStr("user"), content |-> JStr("hello")])
AssistantHi == JObj([role |-> JStr("assistant"), content |-> JStr("hi")])

MessageInputs ==
  AbsentOr({JArr(q) :
              q \in SeqsUpTo({SystemX, UserHello, AssistantHi}, MaxMessages)})

BodyTools ==
  {JUndef, JNull, JStr("x"), JArr(<<>>),
   JArr(<<JObj([name |-> JStr("t1")])>>),
   JArr(<<JObj([name |-> JStr("t2")]),
          JObj([name |-> JStr("t1"), inputSchema |-> JNull])>>)}

\* req.body: { messages, tools?, model?, stream?, includeSystemPrompt? }
RequestBodies ==
  {Compact([messages |-> ms, tools |-> ts, model |-> md, stream |-> st,
            includeSystemPrompt |-> inc]) :
     ms \in MessageInputs, ts \in BodyTools,
     md \in AbsentOr({JStr("gpt-4o")}),
     st \in AbsentOr({JBool(TRUE)}),
     inc \in AbsentOr({JBool(TRUE), JBool(FALSE), JNull})}

ComposeInit ==
  /\ variant \in Variants
  /\ apiKeySet = TRUE
  /\ PipeStart
  /\ reqs = <<>>
  /\ fnPc = "compose"
  /\ fnIn \in RequestBodies
  /\ fnOut = JUndef

\* the handler builds requestBody and serialises it for the LLM fetch
ComposeRequest ==
  /\ fnPc = "compose"
  /\ fnOut' = OutboundBody(fnIn)
  /\ fnPc' = "composed"
  /\ UNCHANGED <<fnIn, pipeVars, reqs>>

SpecCompose == ComposeInit /\ [][ComposeRequest]_vars

\* includeSystemPrompt is true, by its value or by default
PromptWanted ==
  Get(fnIn, "includeSystemPrompt") \in {JUndef, JBool(TRUE)}

\* C12: the outbound messages are the fixed system message followed by the
\* caller's messages in their order exactly when includeSystemPrompt is
\* true, the sequence is not empty and its first message's role is not
\* "system"; in every other case they are the caller's messages as given.
C12_SystemPrompt ==
  (fnPc = "composed" /\ Get(fnIn, "messages").t = "array") =>
     LET ms == Get(fnIn, "messages").v
         inject == /\ PromptWanted
                   /\ Len(ms) > 0
                   /\ ms[1].v["role"] # JStr("system")
     IN Get(fnOut, "messages").v
          = IF inject
              THEN <<JObj([role |-> JStr("system"), content |-> SYSTEM_PROMPT])>>
                     \o ms
              ELSE ms

C12_Witness ==
  /\ fnPc = "composed"
  /\ PromptWanted
  /\ Get(fnIn, "messages") = JArr(<<UserHello, SystemX>>)
  /\ Len(Get(fnOut, "messages").v) = 3
  /\ Get(fnOut, "messages").v[1].v["role"] = JStr("system")
  /\ Get(fnOut, "messages").v[2] = UserHello
  /\ Get(fnOut, "messages").v[3] = SystemX

\* C13: the outbound body has tools and tool_choice, the latter "auto",
\* exactly when the Tool Formatter gave a non-empty sequence, and has
\* neither key otherwise; one user message without tools gives a body
\* with two messages, system then user, and neither key.
C13_ToolsOmitted ==
  fnPc = "composed" =>
     LET formatted == formatToolsForLLM(Get(fnIn, "tools"))
         nonEmpty == Len(formatted.v) > 0
     IN /\ ("tools" \in DOMAIN fnOut.v) <=> nonEmpty
        /\ ("tool_choice" \in DOMAIN fnOut.v) <=> nonEmpty
        /\ nonEmpty => /\ fnOut.v["tool_choice"] = JStr("auto")
                       /\ fnOut.v["tools"] = Wire(formatted)
        /\ (/\ Get(fnIn, "messages") = JArr(<<UserHello>>)
            /\ Get(fnIn, "tools") = JUndef
            /\ Get(fnIn, "includeSystemPrompt") = JUndef)
             => /\ Len(fnOut.v["messages"].v) = 2
                /\ fnOut.v["messages"].v[1].v["role"] = JStr("system")
                /\ fnOut.v["messages"].v[2] = UserHello
                /\ DOMAIN fnOut.v = {"model", "messages",
                                     "max_completion_tokens", "stream"}

C13_Witness ==
  /\ fnPc = "composed"
  /\ Get(fnIn, "tools") = JArr(<<>>)
  /\ Get(fnIn, "messages") = JArr(<<UserHello>>)
  /\ "tools" \notin DOMAIN fnOut.v
  /\ "tool_choice" \notin DOMAIN fnOut.v
  /\ Len(fnOut.v["messages"].v) = 2

\* ================================================== concurrent requests
\* Several requests are in flight in one process.  Every invocation of
\* the handler has its own bindings (req, res, the consts and lets of the
\* handler); reqs[r] holds those of request r.  The process-wide values
\* are the API key and SYSTEM_PROMPT, which no handler writes.  The
\* requests are followed without streaming, each from its arrival to its
\* response; the steps interleave at the awaits.

NumRequests == 2

RequestIds == 1..NumRequests

IdleRequest ==
  [pc |-> "idle", hasAuth |-> FALSE, body |-> JUndef,
   authAnswer |-> NoAnswer, gotAnswer |-> FALSE, llmBody |-> JUndef,
   upStatus |-> 0, upBody |-> "", status |-> 0, resBody |-> NoBody]

\* the bodies of the requests: two different conversations
ConcBodies ==
  {JObj([messages |-> JArr(<<UserHello>>)]),
   JObj([messages |-> JArr(<<SystemX, AssistantHi>>),
         tools |-> JArr(<<JObj([name |-> JStr("t1")])>>)])}

ConcUpstreamBodies == {"[ 1 ]", "<html>"}

OwnBody_Shared(rs, r) ==
  IF \E q \in DOMAIN rs : q # r /\ rs[q].body # JUndef
    THEN rs[CHOOSE q \in DOMAIN rs : q # r /\ rs[q].body # JUndef].body
    ELSE rs[r].body

\* const { messages, tools, model, stream, includeSystemPrompt } = req.body:
\* bindings of the invocation that serves request r
OwnBody(rs, r) == rs[r].body

\* return res.status(st).json(body) in the invocation of request r
ConcRespond(rs, r, st, body) ==
  [rs EXCEPT ![r].pc = "done", ![r].status = st, ![r].resBody = body]

\* the API-key check, the composition of the body and the LLM fetch
ConcKeyCheck(rs, r) ==
  IF ~apiKeySet
    THEN ConcRespond(rs, r, 500, ErrorBody("OpenAI API key not configured"))
    ELSE [rs EXCEPT ![r].pc = "llmWait",
                    ![r].llmBody = OutboundBody(OwnBody(rs, r))]

\* the handler from its entry to its first await or return
ConcEntry(rs, r) ==
  IF variant = "gated"
    THEN IF ~rs[r].hasAuth
           THEN ConcRespond(rs, r, 401, ErrorBody("No authorization token provided"))
           ELSE [rs EXCEPT ![r].pc = "authWait"]
    ELSE ConcKeyCheck(rs, r)

\* the handler after the auth service answered with validationData
ConcAuthDecided(rs, r) ==
  LET d == AuthDecision(rs[r].authAnswer) IN
    CASE d = 0 -> ConcKeyCheck(rs, r)
      [] d = 500 -> ConcRespond(rs, r, 500, ErrorBody("Authentication check failed"))
      [] d = 401 -> ConcRespond(rs, r, 401, ErrorBody("Invalid token"))
      [] OTHER -> ConcRespond(rs, r, 403, ErrorBody("Subscription required"))

\* the handler after the LLM API answered with a status and a body
ConcRelay(rs, r) ==
  LET st == rs[r].upStatus
      t == rs[r].upBody
  IN IF ~JsonParse(t).ok
       THEN ConcRespond(rs, r, 500, ErrorBody(JsonParse(t).val))
       ELSE ConcRespond(rs, r,
                        IF IsOk(st) THEN SuccessStatus(st) ELSE RelayStatus(st),
                        RelayBody(RelayText(t)))

ConcInit ==
  /\ variant \in Variants
  /\ apiKeySet \in BOOLEAN
  /\ PipeStart
  /\ FnOff
  /\ reqs = [r \in RequestIds |-> IdleRequest]

\* a request arrives and its handler runs to its first await or return
ConcArrive ==
  /\ \E r \in RequestIds, h \in BOOLEAN, b \in ConcBodies :
       /\ reqs[r].pc = "idle"
       /\ reqs' = ConcEntry([reqs EXCEPT ![r].hasAuth = h, ![r].body = b], r)
  /\ UNCHANGED <<pipeVars, fnVars>>

\* the auth call of a request fails: fetch rejects, or the body is unreadable
ConcAuthFails ==
  /\ \E r \in RequestIds :
       /\ reqs[r].pc = "authWait"
       /\ reqs' = ConcRespond(reqs, r, 500, ErrorBody("Authentication check failed"))
  /\ UNCHANGED <<pipeVars, fnVars>>

\* the auth service answers a request with a non-success status
ConcAuthBadStatus ==
  /\ \E r \in RequestIds :
       /\ reqs[r].pc = "authWait"
       /\ reqs' = ConcRespond(reqs, r, 401, ErrorBody("Token validation request failed"))
  /\ UNCHANGED <<pipeVars, fnVars>>

\* the auth service answers a request with validationData
ConcAuthAnswers ==
  /\ \E r \in RequestIds, data \in AuthAnswers :
       /\ reqs[r].pc = "authWait"
       /\ reqs' = ConcAuthDecided(
                    [reqs EXCEPT ![r].authAnswer = data, ![r].gotAnswer = TRUE], r)
  /\ UNCHANGED <<pipeVars, fnVars>>

\* the LLM fetch of a request rejects
ConcLLMFails ==
  /\ \E r \in RequestIds :
       /\ reqs[r].pc = "llmWait"
       /\ reqs' = ConcRespond(reqs, r, 500, ErrorBody("fetch failed"))
  /\ UNCHANGED <<pipeVars, fnVars>>

\* the LLM API answers a request and its body is read
ConcLLMAnswers ==
  /\ \E r \in RequestIds, st \in UpstreamStatuses, t \in ConcUpstreamBodies :
       /\ reqs[r].pc = "llmWait"
       /\ reqs' = ConcRelay([reqs EXCEPT ![r].upStatus = st, ![r].upBody = t], r)
  /\ UNCHANGED <<pipeVars, fnVars>>

ConcNext ==
  \/ ConcArrive
  \/ ConcAuthFails
  \/ ConcAuthBadStatus
  \/ ConcAuthAnswers
  \/ ConcLLMFails
  \/ ConcLLMAnswers

SpecConc == ConcInit /\ [][ConcNext]_vars

\* C11: whatever the interleaving, a request of the gated handler reaches
\* the LLM call only on its own auth answer with isValid and isFreeTrial
\* true; its outbound body is the one composed from its own req.body; its
\* auth rejection and its relayed response are those of the answers to
\* its own calls.
C11_Isolated ==
  \A r \in DOMAIN reqs :
     LET q == reqs[r] IN
       /\ ((variant = "gated" /\ q.llmBody # JUndef) =>
             (q.hasAuth /\ q.gotAnswer
                /\ q.authAnswer.isValid /\ q.authAnswer.isFreeTrial))
       /\ (q.llmBody # JUndef => q.llmBody = OutboundBody(q.body))
       /\ (q.pc = "llmWait" => q.llmBody # JUndef)
       /\ ((q.gotAnswer /\ ~q.authAnswer.isNull /\ ~q.authAnswer.isValid) =>
             (q.pc = "done" /\ q.status = 401 /\ q.llmBody = JUndef))
       /\ ((q.gotAnswer /\ q.authAnswer.isValid /\ ~q.authAnswer.isFreeTrial) =>
             (q.pc = "done" /\ q.status = 403 /\ q.llmBody = JUndef))
       /\ ((q.upBody # "" /\ JsonParse(q.upBody).ok) =>
             (/\ q.pc = "done"
              /\ q.status = (IF IsOk(q.upStatus) THEN 200 ELSE q.upStatus)
              /\ q.resBody = RelayBody(JsonStringify(JsonParse(q.upBody).val))))

C11_Witness ==
  /\ variant = "gated"
  /\ reqs # <<>>
  /\ reqs[1].pc = "llmWait"
  /\ reqs[1].llmBody = OutboundBody(reqs[1].body)
  /\ reqs[2].pc = "done"
  /\ reqs[2].gotAnswer
  /\ reqs[2].status = 401
  /\ reqs[2].body # reqs[1].body

\* ====================================================== one response
\* C21: a request gets at most one response.  The handler writes a
\* status and body at most once on every path, a written response ends
\* the handler, and once the event-stream headers and the pipe are set
\* up the response stays the event stream: no JSON body follows it.
C21_AtMostOneResponse ==
  /\ responses <= 1
  /\ (responses = 1 => pc = "done")
  /\ (responses = 0 => (status = 0 /\ resBody = NoBody))
  /\ (piped => (responses = 1 /\ status = 200 /\ resBody = StreamBody))

C21_Witness ==
  /\ piped
  /\ emitted # <<>>
  /\ upstream = "errored"
  /\ responses = 1
  /\ resBody = StreamBody

\* ================================================= the two handlers
\* The gated handler (src/Dockerfile) and the ungated handler
\* (src/index.js) side by side.  The gated handler holds a request whose
\* auth call is in flight; when its validation succeeds the ungated
\* handler is given the same request, and from then on both are given the
\* same collaborator answers and the same client events.  reqs holds the
\* request body, the client's state, the gate's outcome and the bindings
\* of each handler.

IdleHandler ==
  [pc |-> "idle", llmCalls |-> 0, llmBody |-> JUndef, upStatus |-> 0,
   upstream |-> "none", piped |-> FALSE, closeListener |-> FALSE,
   stalled |-> FALSE, emitted |-> <<>>, delivered |-> <<>>,
   status |-> 0, resBody |-> NoBody, responses |-> 0, crashed |-> FALSE]

PairBodies ==
  {Compact([messages |-> JArr(<<UserHello>>), tools |-> ts, stream |-> st]) :
     ts \in {JUndef, JArr(<<JObj([name |-> JStr("t1")])>>)},
     st \in AbsentOr({JBool(TRUE)})}

\* return res.status(st).json(b)
PairRespond(q, st, b) ==
  [q EXCEPT !.pc = "done", !.status = st, !.resBody = b,
            !.responses = @ + 1]

\* requestBody and the LLM fetch of handler h
PairCallLLM(h, q, body) ==
  [q EXCEPT !.pc = "llmWait", !.llmCalls = @ + 1,
            !.llmBody = Wire(RequestBodyOf(SystemPromptOf(h), body))]

\* src/Dockerfile 288-325: the gated handler after its validation succeeded
GatedAfterAuth(q, body) ==
  IF ~apiKeySet
    THEN PairRespond(q, 500, ErrorBody("OpenAI API key not configured"))
    ELSE PairCallLLM("gated", q, body)

UngatedEntry_NoKeyCheck(q, body) == PairCallLLM("ungated", q, body)

\* src/index.js 208-249: the ungated handler from its entry
UngatedEntry(q, body) ==
  IF ~apiKeySet
    THEN PairRespond(q, 500, ErrorBody("OpenAI API key not configured"))
    ELSE PairCallLLM("ungated", q, body)

\* the LLM fetch resolves with status st: read the error body, read the
\* data, or set the event-stream headers, the pipe and the close listener
PairFetchResolved(q, st, body) ==
  IF q.pc # "llmWait" THEN q
  ELSE LET q1 == [q EXCEPT !.upStatus = st, !.upstream = "open"] IN
       IF ~IsOk(st) THEN [q1 EXCEPT !.pc = "errBody"]
       ELSE IF Falsy(Default(Get(body, "stream"), JBool(FALSE)))
         THEN [q1 EXCEPT !.pc = "okBody"]
       ELSE [q1 EXCEPT !.pc = "done", !.status = 200, !.resBody = StreamBody,
                       !.responses = @ + 1, !.piped = TRUE,
                       !.closeListener = TRUE]

\* response.json() resolves or throws on the text t, and the relay
PairBodyRead(q, t) ==
  IF q.pc \notin {"errBody", "okBody"} THEN q
  ELSE LET q1 == [q EXCEPT !.upstream = "ended"] IN
       IF ~JsonParse(t).ok
         THEN PairRespond(q1, 500, ErrorBody(JsonParse(t).val))
         ELSE PairRespond(q1,
                          IF q.pc = "errBody" THEN RelayStatus(q.upStatus)
                                              ELSE SuccessStatus(q.upStatus),
                          RelayBody(RelayText(t)))

\* response.json() rejects because the body stream fails
PairBodyFailed(q) ==
  IF q.pc \notin {"errBody", "okBody"} THEN q
  ELSE PairRespond([q EXCEPT !.upstream = "errored"], 500,
                   ErrorBody("body stream failed"))

\* req emits 'close': the listener, if registered, destroys the body
PairClosed(q) ==
  IF q.closeListener /\ q.upstream = "open"
    THEN [q EXCEPT !.upstream = "destroyed"]
    ELSE q

PairPiping(q) == q.piped /\ q.upstream = "open" /\ ~q.crashed

\* the body emits chunk c and the pipe writes it to res
PairChunked(q, c, gone) ==
  IF ~(PairPiping(q) /\ ~q.stalled) THEN q
  ELSE IF gone
    THEN [q EXCEPT !.emitted = Append(@, c), !.stalled = TRUE]
    ELSE [q EXCEPT !.emitted = Append(@, c), !.delivered = PipeWrite(@, c)]

\* the body ends or, with no listener registered, emits 'error'
PairFinished(q, how) ==
  IF ~PairPiping(q) \/ (how = "ended" /\ q.stalled) THEN q
  ELSE [q EXCEPT !.upstream = how, !.crashed = (how = "errored")]

PairInit ==
  /\ variant = "gated"
  /\ apiKeySet \in BOOLEAN
  /\ PipeStart
  /\ FnOff
  /\ \E b \in PairBodies :
       reqs = [body |-> b, clientGone |-> FALSE, gate |-> "wait",
               gated |-> [IdleHandler EXCEPT !.pc = "authWait"],
               ungated |-> IdleHandler]

\* the auth call fails: the fetch or the reading of its body rejects
PairAuthFails ==
  /\ reqs.gate = "wait"
  /\ reqs' = [reqs EXCEPT !.gate = "rejected",
                !.gated = PairRespond(@, 500,
                                      ErrorBody("Authentication check failed"))]
  /\ UNCHANGED <<pipeVars, fnVars>>

\* the auth service answers with a non-success status
PairAuthBadStatus ==
  /\ reqs.gate = "wait"
  /\ reqs' = [reqs EXCEPT !.gate = "rejected",
                !.gated = PairRespond(@, 401,
                                      ErrorBody("Token validation request failed"))]
  /\ UNCHANGED <<pipeVars, fnVars>>

\* the auth service answers with validationData: on a rejection the
\* gated handler answers and the request goes no further; on a success
\* the gated handler goes on after its Auth Gate and the ungated handler
\* starts on the same request
PairAuthAnswers ==
  /\ reqs.gate = "wait"
  /\ \E data \in AuthAnswers :
       LET d == AuthDecision(data) IN
         reqs' = [reqs EXCEPT
                    !.gate = IF d = 0 THEN "passed" ELSE "rejected",
                    !.gated =
                      CASE d = 0 -> GatedAfterAuth(@, reqs.body)
                        [] d = 500 ->
                             PairRespond(@, 500, ErrorBody("Authentication check failed"))
                        [] d = 401 -> PairRespond(@, 401, ErrorBody("Invalid token"))
                        [] OTHER ->
                             PairRespond(@, 403, ErrorBody("Subscription required")),
                    !.ungated = IF d = 0 THEN UngatedEntry(@, reqs.body) ELSE @]
  /\ UNCHANGED <<pipeVars, fnVars>>

\* from here on both handlers take the same event, each on its own
\* bindings; a handler the event does not concern is left as it is

\* the LLM fetch rejects: the catch answers 500
PairLLMFetchRejects ==
  /\ "llmWait" \in {reqs.gated.pc, reqs.ungated.pc}
  /\ reqs' = [reqs EXCEPT
                !.gated = IF @.pc = "llmWait"
                            THEN PairRespond(@, 500, ErrorBody("fetch failed"))
                            ELSE @,
                !.ungated = IF @.pc = "llmWait"
                              THEN PairRespond(@, 500, ErrorBody("fetch failed"))
                              ELSE @]
  /\ UNCHANGED <<pipeVars, fnVars>>

PairLLMFetchResolves ==
  /\ "llmWait" \in {reqs.gated.pc, reqs.ungated.pc}
  /\ \E st \in UpstreamStatuses :
       reqs' = [reqs EXCEPT !.gated = PairFetchResolved(@, st, reqs.body),
                            !.ungated = PairFetchResolved(@, st, reqs.body)]
  /\ UNCHANGED <<pipeVars, fnVars>>

PairLLMBody ==
  /\ {reqs.gated.pc, reqs.ungated.pc} \cap {"errBody", "okBody"} # {}
  /\ \E t \in ConcUpstreamBodies :
       reqs' = [reqs EXCEPT !.gated = PairBodyRead(@, t),
                            !.ungated = PairBodyRead(@, t)]
  /\ UNCHANGED <<pipeVars, fnVars>>

PairLLMBodyRejects ==
  /\ {reqs.gated.pc, reqs.ungated.pc} \cap {"errBody", "okBody"} # {}
  /\ reqs' = [reqs EXCEPT !.gated = PairBodyFailed(@),
                          !.ungated = PairBodyFailed(@)]
  /\ UNCHANGED <<pipeVars, fnVars>>

PairClientClose ==
  /\ ~reqs.clientGone
  /\ reqs' = [reqs EXCEPT !.clientGone = TRUE,
                          !.gated = PairClosed(@),
                          !.ungated = PairClosed(@)]
  /\ UNCHANGED <<pipeVars, fnVars>>

PairUpstreamChunk ==
  /\ \E q \in {reqs.gated, reqs.ungated} :
       PairPiping(q) /\ ~q.stalled /\ Len(q.emitted) < MaxChunks
  /\ \E c \in Chunks :
       reqs' = [reqs EXCEPT !.gated = PairChunked(@, c, reqs.clientGone),
                            !.ungated = PairChunked(@, c, reqs.clientGone)]
  /\ UNCHANGED <<pipeVars, fnVars>>

PairUpstreamEnd ==
  /\ \E q \in {reqs.gated, reqs.ungated} : PairPiping(q) /\ ~q.stalled
  /\ reqs' = [reqs EXCEPT !.gated = PairFinished(@, "ended"),
                          !.ungated = PairFinished(@, "ended")]
  /\ UNCHANGED <<pipeVars, fnVars>>

PairUpstreamError ==
  /\ \E q \in {reqs.gated, reqs.ungated} : PairPiping(q)
  /\ reqs' = [reqs EXCEPT !.gated = PairFinished(@, "errored"),
                          !.ungated = PairFinished(@, "errored")]
  /\ UNCHANGED <<pipeVars, fnVars>>

PairNext ==
  \/ PairAuthFails
  \/ PairAuthBadStatus
  \/ PairAuthAnswers
  \/ PairLLMFetchRejects
  \/ PairLLMFetchResolves
  \/ PairLLMBody
  \/ PairLLMBodyRejects
  \/ PairClientClose
  \/ PairUpstreamChunk
  \/ PairUpstreamEnd
  \/ PairUpstreamError

SpecPair == PairInit /\ [][PairNext]_vars

====
